---- MODULE Spec2Model ----
(***************************************************************************)
(* rpi-sensor-exporter (main.go): the startup code of main, the background *)
(* polling goroutine (one immediate updateSensors, then one per ticker     *)
(* tick) and the /metrics handler that reads the gauges concurrently.      *)
(*                                                                         *)
(* Gauge values are float64 in the program.  Here a real number x is the   *)
(* integer x * Scale (two decimals), so 22.0 degrees is 2200 and           *)
(* 1013.25 hPa is 101325.                                                  *)
(***************************************************************************)
EXTENDS Integers, Sequences, FiniteSets, TLC

VARIABLES
    mainpc,     \* position of main(): connect, start_bme, ..., serving, fatal
    bme,        \* bme # nil
    sht,        \* sht # nil
    tsl,        \* tsl # nil
    pollpc,     \* position of the goroutine of main.go:104-114
    ticker,     \* time.NewTicker has been called
    tickC,      \* ticks buffered in ticker.C (a channel of capacity 1)
    reg,        \* the gauges' children: label values -> value
    loc,        \* locals of the running updateSensors call
    hung,       \* the driver call in flight never returns
    snap,       \* the /metrics response written by the step just taken, if any
    cur,        \* the sample the sensor being read is exposed to
    rd,         \* history: driver reads issued in this cycle, per read
    wr,         \* history: Set calls of this cycle, per series
    bad,        \* history: a read of the source returned an error in this cycle
    got,        \* history: what the source's reads returned in this cycle, while none failed
    reg0,       \* history: the gauges when the running cycle began (empty outside a cycle)
    everOk,     \* history: some cycle's reads of the source all succeeded
    cycle,      \* history: updateSensors calls started (saturating)
    ticksRecv,  \* history: ticks received from ticker.C (saturating)
    tickLost    \* history: a tick found ticker.C full and was dropped

vars == <<mainpc, bme, sht, tsl, pollpc, ticker, tickC, reg, loc, hung, snap,
          cur, rd, wr, bad, got, reg0, everOk, cycle, ticksRecv, tickLost>>

(***************************************************************************)
(* Bounds of the model.                                                    *)
(***************************************************************************)
\* cycle and ticksRecv count up to MaxCycle and stay there
MaxCycle == 2
\* terms of the exponential series
ExpTerms == 12

\* fixed-point scale of float values
Scale == 100
\* fixed-point scale inside the exponential
ExpScale == 10000

(***************************************************************************)
(* Labels and series.                                                      *)
(***************************************************************************)
Devices == {"bme280", "sht2x", "tsl2561"}

Key(name, device) == <<name, device, "indoor">>

KeyT(name, device, type) == <<name, device, "indoor", type>>

TempKey(d) == Key("sensor_temperature_celsius", d)

HumKey(d) == Key("sensor_humidity_percent", d)

AbsHumKey(d) == Key("sensor_absolute_humidity_g_m3", d)

PressKey(d) == Key("sensor_pressure_hpa", d)

LuxKey(d) == Key("sensor_illuminance_lux", d)

RawKey(d, type) == KeyT("sensor_light_raw", d, type)

\* the series each section of updateSensors sets when its reads succeed
Owned(d) ==
    CASE d = "bme280" -> {TempKey(d), PressKey(d), HumKey(d), AbsHumKey(d)}
      [] d = "sht2x" -> {TempKey(d), HumKey(d), AbsHumKey(d)}
      [] d = "tsl2561" -> {LuxKey(d), RawKey(d, "broadband"), RawKey(d, "infrared")}

\* the driver reads each section of updateSensors issues
Reads(d) ==
    CASE d = "bme280" -> {"bme.Temperature", "bme.Pressure", "bme.Humidity"}
      [] d = "sht2x" -> {"sht.Temperature", "sht.Humidity"}
      [] d = "tsl2561" -> {"tsl.GetLuminocity"}

AllReads == UNION {Reads(d) : d \in Devices}

AllSeries == UNION {Owned(d) : d \in Devices}

\* every label combination a gauge vector could hold
AnySeries ==
    {Key(n, d) : n \in {"sensor_temperature_celsius", "sensor_humidity_percent",
                        "sensor_absolute_humidity_g_m3", "sensor_pressure_hpa",
                        "sensor_illuminance_lux"}, d \in Devices}
    \cup {KeyT("sensor_light_raw", d, ty) : d \in Devices, ty \in {"broadband", "infrared"}}

DeviceOf(k) == k[2]

(***************************************************************************)
(* What the sensors can return: per source, the samples it may be exposed  *)
(* to while it is read.  Temperatures, humidities and pressures are        *)
(* float32 values (x Scale); the light channels are uint16 counts.         *)
(***************************************************************************)
SampleIds == {1, 2}

BmeSample(i) ==
    IF i = 1 THEN [t |-> 2200, p |-> 10132500, h |-> 4500]
             ELSE [t |-> 2500, p |-> 10000000, h |-> 5000]

ShtSample(i) ==
    IF i = 1 THEN [t |-> 2100, h |-> 4000]
             ELSE [t |-> 2500, h |-> 5000]

TslSample(i) ==
    IF i = 1 THEN [bb |-> 100, ir |-> 20]
             ELSE [bb |-> 500, ir |-> 300]

(***************************************************************************)
(* Pure functions.                                                         *)
(***************************************************************************)
\* float64(n) of an integer n, as a fixed-point value
Float64OfInt(n) == n * Scale

\* mutant: the pressure is published in Pa
PaToHPaNoDiv(p) == p

\* float64(p) / 100.0 (Pa -> hPa), on fixed-point values
PaToHPa(p) == p \div 100

\* a / b for b > 0 rounded to the nearest integer, as a float64 operation
\* rounds its result to the nearest representable value
RDiv(a, b) == (a + b \div 2) \div b

RECURSIVE ExpSeries(_, _, _)
\* sum of the terms x^n/n! from term number n on, term being the n-th
ExpSeries(x, n, term) ==
    IF n > ExpTerms \/ term = 0 THEN 0
    ELSE term + ExpSeries(x, n + 1, RDiv(term * x, ExpScale * n))

\* math.Exp(x), x given and the result returned at ExpScale
Exp(x) == ExpSeries(x, 1, ExpScale)

\* the Magnus formula in place of Bolton's:
\* 6.112 * exp(17.62*t/(t+243.12)) * rh * 2.1674 / (273.15 + t)
calcAbsoluteHumidityMagnus(t, rh) ==
    LET x  == RDiv(1762 * t * 100, t + 24312)
        e  == Exp(x)
        a  == RDiv(6112 * e, 10000)
        q  == RDiv(a * rh, 27315 + t)
    IN  RDiv(q * 21674, 100000)

\* 6.112 * exp(17.67*t/(t+243.5)) * rh * 2.1674 / (273.15 + t), with t in
\* 0.01 degree, rh in 0.01 percent and the result in 0.01 g/m3: x is the
\* exponent at ExpScale, a the vapour pressure 6.112 * exp(x) in 0.001 hPa,
\* q is a * rh / (273.15 + t)
calcAbsoluteHumidity(t, rh) ==
    LET x  == RDiv(1767 * t * 100, t + 24350)
        e  == Exp(x)
        a  == RDiv(6112 * e, 10000)
        q  == RDiv(a * rh, 27315 + t)
    IN  RDiv(q * 21674, 100000)

\* TSL2561Driver.CalculateLux of the gobot driver at its default
\* integration time (402 ms) with 16x gain, T package coefficients
LuxBM(ratio) ==
    IF ratio <= 64 THEN <<498, 446>>
    ELSE IF ratio <= 128 THEN <<532, 721>>
    ELSE IF ratio <= 192 THEN <<575, 891>>
    ELSE IF ratio <= 256 THEN <<624, 1022>>
    ELSE IF ratio <= 312 THEN <<367, 508>>
    ELSE IF ratio <= 410 THEN <<210, 251>>
    ELSE IF ratio <= 666 THEN <<24, 18>>
    ELSE <<0, 0>>

CalculateLux(bb, ir) ==
    IF bb > 65000 \/ ir > 65000 THEN 0
    ELSE LET ch0    == (bb * 1024) \div 1024
             ch1    == (ir * 1024) \div 1024
             ratio1 == IF ch0 # 0 THEN (ch1 * 1024) \div ch0 ELSE 0
             ratio  == (ratio1 + 1) \div 2
             bm     == LuxBM(ratio)
             raw    == ch0 * bm[1] - ch1 * bm[2]
             temp   == IF raw < 0 THEN 0 ELSE raw
         IN  (temp + 8192) \div 16384

\* GaugeVec.WithLabelValues(k...).Set(v): creates the child on first use
SetGauge(r, k, v) == [x \in DOMAIN r \cup {k} |-> IF x = k THEN v ELSE r[x]]

(***************************************************************************)
(* State after the drivers are constructed (main.go:70-80): all three      *)
(* driver pointers are non-nil, no goroutine, no ticker, no gauge child.   *)
(***************************************************************************)
NoLoc == [t |-> 0, p |-> 0, h |-> 0, errT |-> FALSE, errP |-> FALSE,
          errH |-> FALSE, bb |-> 0, ir |-> 0, err |-> FALSE]

NoReg == [k \in {} |-> 0]

Init ==
    /\ mainpc = "connect"
    /\ bme = TRUE /\ sht = TRUE /\ tsl = TRUE
    /\ pollpc = "none"
    /\ ticker = FALSE
    /\ tickC = 0
    /\ reg = NoReg
    /\ loc = NoLoc
    /\ hung = FALSE
    /\ snap = NoReg
    /\ cur = 0
    /\ rd = [r \in AllReads |-> 0]
    /\ wr = [k \in AnySeries |-> 0]
    /\ bad = [d \in Devices |-> FALSE]
    /\ got = [d \in Devices |-> <<>>]
    /\ reg0 = NoReg
    /\ everOk = [d \in Devices |-> FALSE]
    /\ cycle = 0
    /\ ticksRecv = 0
    /\ tickLost = FALSE

\* the response of an earlier request has been sent: nothing of it is kept
Sent == snap' = NoReg

\* log.Fatal has not ended the process
Alive == mainpc # "fatal"

Sat(n) == IF n < MaxCycle THEN n + 1 ELSE MaxCycle

Bump(n) == IF n < 2 THEN n + 1 ELSE 2

mainVars == <<mainpc, bme, sht, tsl>>

histVars == <<rd, wr, bad, got, reg0, everOk, cycle, ticksRecv>>

(***************************************************************************)
(* main(), lines 82-101: connect, then start each driver once.             *)
(***************************************************************************)
Connect ==
    /\ mainpc = "connect"
    /\ \E ok \in BOOLEAN : mainpc' = IF ok THEN "start_bme" ELSE "fatal"
    /\ Sent
    /\ UNCHANGED <<bme, sht, tsl, pollpc, ticker, tickC, reg, loc, hung, cur,
                   rd, wr, bad, got, reg0, everOk, cycle, ticksRecv,
                   tickLost>>

StartBme ==
    /\ mainpc = "start_bme"
    /\ \E ok \in BOOLEAN : bme' = ok
    /\ mainpc' = "start_sht"
    /\ Sent
    /\ UNCHANGED <<sht, tsl, pollpc, ticker, tickC, reg, loc, hung, cur, rd,
                   wr, bad, got, reg0, everOk, cycle, ticksRecv, tickLost>>

StartSht ==
    /\ mainpc = "start_sht"
    /\ \E ok \in BOOLEAN : sht' = ok
    /\ mainpc' = "start_tsl"
    /\ Sent
    /\ UNCHANGED <<bme, tsl, pollpc, ticker, tickC, reg, loc, hung, cur, rd,
                   wr, bad, got, reg0, everOk, cycle, ticksRecv, tickLost>>

StartTsl ==
    /\ mainpc = "start_tsl"
    /\ \E ok \in BOOLEAN : tsl' = ok
    /\ mainpc' = "go"
    /\ Sent
    /\ UNCHANGED <<bme, sht, pollpc, ticker, tickC, reg, loc, hung, cur, rd,
                   wr, bad, got, reg0, everOk, cycle, ticksRecv, tickLost>>

(***************************************************************************)
(* main(), lines 104-128: start the goroutine, then listen and serve.      *)
(***************************************************************************)
\* mutant: the goroutine creates the ticker first and waits for a tick
GoEntryTicker == "newticker"

\* where the goroutine's body begins: the call of line 106
GoEntry == "first"

GoPoller ==
    /\ mainpc = "go"
    /\ mainpc' = "listen"
    /\ pollpc' = GoEntry
    /\ Sent
    /\ UNCHANGED <<bme, sht, tsl, ticker, tickC, reg, loc, hung, cur, rd, wr,
                   bad, got, reg0, everOk, cycle, ticksRecv, tickLost>>

\* ListenAndServe binds the port, or returns an error and log.Fatal exits
Listen ==
    /\ mainpc = "listen"
    /\ \E ok \in BOOLEAN : mainpc' = IF ok THEN "serving" ELSE "fatal"
    /\ Sent
    /\ UNCHANGED <<bme, sht, tsl, pollpc, ticker, tickC, reg, loc, hung, cur,
                   rd, wr, bad, got, reg0, everOk, cycle, ticksRecv,
                   tickLost>>

\* mutant: the handler waits while the goroutine is inside a driver call
CanScrapeIdle ==
    /\ mainpc = "serving"
    /\ pollpc \notin {"bme_T_io", "bme_P_io", "bme_H_io", "sht_T_io", "sht_H_io",
                      "tsl_L_io"}

\* whether the /metrics handler can run now
CanScrape == mainpc = "serving"

\* mutant: the handler also sets a gauge
ScrapeWrites ==
    /\ CanScrape
    /\ snap' = reg
    /\ reg' = SetGauge(reg, LuxKey("tsl2561"), 0)
    /\ UNCHANGED <<mainpc, bme, sht, tsl, pollpc, ticker, tickC, loc, hung,
                   cur, rd, wr, bad, got, reg0, everOk, cycle, ticksRecv,
                   tickLost>>

\* promhttp.Handler answering a GET /metrics: renders the gauges
Scrape ==
    /\ CanScrape
    /\ snap' = reg
    /\ UNCHANGED <<mainpc, bme, sht, tsl, pollpc, ticker, tickC, reg, loc,
                   hung, cur, rd, wr, bad, got, reg0, everOk, cycle,
                   ticksRecv, tickLost>>

(***************************************************************************)
(* The goroutine, lines 104-114.                                           *)
(***************************************************************************)
\* entering updateSensors: a new cycle's history
EnterCycle ==
    /\ pollpc' = "bme_nil"
    /\ cycle' = Sat(cycle)
    /\ rd' = [r \in AllReads |-> 0]
    /\ wr' = [k \in AnySeries |-> 0]
    /\ bad' = [d \in Devices |-> FALSE]
    /\ got' = [d \in Devices |-> <<>>]
    /\ reg0' = reg
    /\ UNCHANGED everOk

\* line 106: the immediate first call
CallFirst ==
    /\ Alive
    /\ pollpc = "first"
    /\ EnterCycle
    /\ Sent
    /\ UNCHANGED <<mainVars, ticker, tickC, reg, loc, hung, cur, ticksRecv,
                   tickLost>>

\* line 184: updateSensors returns to line 108 or to the loop of line 111
Return ==
    /\ Alive
    /\ pollpc = "ret"
    /\ pollpc' = IF ticker THEN "wait" ELSE "newticker"
    /\ reg0' = NoReg
    /\ Sent
    /\ UNCHANGED <<mainVars, ticker, tickC, reg, loc, hung, cur, rd, wr, bad,
                   got, everOk, cycle, ticksRecv, tickLost>>

\* line 108
NewTicker ==
    /\ Alive
    /\ pollpc = "newticker"
    /\ ticker' = TRUE
    /\ pollpc' = "wait"
    /\ Sent
    /\ UNCHANGED <<mainVars, tickC, reg, loc, hung, cur, histVars, tickLost>>

\* the runtime's timer: sends on ticker.C, dropping the tick if it is full
Tick ==
    /\ Alive
    /\ ticker
    /\ IF tickC = 0
       THEN tickC' = 1 /\ UNCHANGED tickLost
       ELSE tickLost' = TRUE /\ UNCHANGED tickC
    /\ Sent
    /\ UNCHANGED <<mainVars, pollpc, ticker, reg, loc, hung, cur, histVars>>

\* a loop that takes the tick off ticker.C without calling updateSensors
RecvTickSkip ==
    /\ Alive
    /\ pollpc = "wait"
    /\ tickC > 0
    /\ tickC' = tickC - 1
    /\ ticksRecv' = Sat(ticksRecv)
    /\ Sent
    /\ UNCHANGED <<mainVars, pollpc, ticker, reg, loc, hung, cur, rd, wr, bad,
                   got, reg0, everOk, cycle, tickLost>>

\* mutant: each tick is served at once, whether or not the previous call
\* has returned (as a timer callback would)
RecvTickAnytime ==
    /\ Alive
    /\ pollpc \notin {"none", "first", "newticker"}
    /\ tickC > 0
    /\ tickC' = tickC - 1
    /\ ticksRecv' = Sat(ticksRecv)
    /\ EnterCycle
    /\ Sent
    /\ UNCHANGED <<mainVars, ticker, reg, loc, hung, cur, tickLost>>

\* lines 111-112: receive a tick and call updateSensors
RecvTick ==
    /\ Alive
    /\ pollpc = "wait"
    /\ tickC > 0
    /\ tickC' = tickC - 1
    /\ ticksRecv' = Sat(ticksRecv)
    /\ EnterCycle
    /\ Sent
    /\ UNCHANGED <<mainVars, ticker, reg, loc, hung, cur, tickLost>>

(***************************************************************************)
(* updateSensors, lines 131-184.  A driver read is two steps: the call is  *)
(* issued, and it returns a value or an error; between the two the         *)
(* goroutine is blocked on the bus.  A Set call is one step.               *)
(***************************************************************************)
\* the goroutine is inside a driver call
InRead == pollpc \in {"bme_T_io", "bme_P_io", "bme_H_io", "sht_T_io", "sht_H_io",
                      "tsl_L_io"}

\* mutant: the nil check of line 135 is missing
PollBmeAlways == TRUE

\* the guards of lines 135, 154 and 171
PollBme == bme

PollSht == sht

PollTsl == tsl

\* a section's nil check: enter it (the sensor is exposed to some sample)
\* or skip to the next section
Section(from, present, into, skip) ==
    /\ Alive
    /\ pollpc = from
    /\ IF present
       THEN /\ pollpc' = into
            /\ \E i \in SampleIds : cur' = i
       ELSE /\ pollpc' = skip
            /\ UNCHANGED cur
    /\ Sent
    /\ UNCHANGED <<mainVars, ticker, tickC, reg, loc, hung, histVars, tickLost>>

\* a driver call is issued
Issue(from, io, name) ==
    /\ Alive
    /\ pollpc = from
    /\ pollpc' = io
    /\ rd' = [rd EXCEPT ![name] = Bump(@)]
    /\ Sent
    /\ UNCHANGED <<mainVars, ticker, tickC, reg, loc, hung, cur, wr, bad,
                   got, reg0, everOk, cycle, ticksRecv, tickLost>>

\* history of a read of d that returned: the values vals, or an error
Returned(d, ok, vals) ==
    /\ bad' = [bad EXCEPT ![d] = @ \/ ~ok]
    /\ got' = [got EXCEPT ![d] = IF bad[d] \/ ~ok THEN <<>> ELSE @ \o vals]
    /\ everOk' = [everOk EXCEPT
                      ![d] = @ \/ (ok /\ ~bad[d] /\ \A r \in Reads(d) : rd[r] >= 1)]
    /\ UNCHANGED <<rd, wr, reg0, cycle, ticksRecv>>

\* a driver call of source d returns val or an error (and then the zero value)
Result(io, to, d, field, errField, val) ==
    /\ Alive
    /\ pollpc = io
    /\ ~hung
    /\ \E ok \in BOOLEAN :
          /\ loc' = [loc EXCEPT ![field] = IF ok THEN val ELSE 0,
                                ![errField] = ~ok]
          /\ Returned(d, ok, <<val>>)
    /\ pollpc' = to
    /\ Sent
    /\ UNCHANGED <<mainVars, ticker, tickC, reg, hung, cur, tickLost>>

\* the branch after a section's reads: the error branch logs and leaves
\* the section, the other goes on to the Set calls
Branch(from, failed, ok, next) ==
    /\ Alive
    /\ pollpc = from
    /\ IF failed
       THEN /\ pollpc' = next
            /\ loc' = NoLoc
            /\ cur' = 0
       ELSE /\ pollpc' = ok
            /\ UNCHANGED <<loc, cur>>
    /\ Sent
    /\ UNCHANGED <<mainVars, ticker, tickC, reg, hung, histVars, tickLost>>

\* one WithLabelValues(k...).Set(v); last: the section ends with it
SetStep(from, to, k, v, last) ==
    /\ Alive
    /\ pollpc = from
    /\ reg' = SetGauge(reg, k, v)
    /\ wr' = [wr EXCEPT ![k] = Bump(@)]
    /\ pollpc' = to
    /\ IF last THEN loc' = NoLoc /\ cur' = 0 ELSE UNCHANGED <<loc, cur>>
    /\ Sent
    /\ UNCHANGED <<mainVars, ticker, tickC, hung, rd, bad, got, reg0, everOk,
                   cycle, ticksRecv, tickLost>>

\* --- BME280, lines 135-151 ---
BmeNil == Section("bme_nil", PollBme, "bme_T", "sht_nil")

BmeTemperature == Issue("bme_T", "bme_T_io", "bme.Temperature")

\* mutant: a failed Temperature() skips the other two reads
BmeTemperatureRetShort ==
    /\ Alive
    /\ pollpc = "bme_T_io"
    /\ ~hung
    /\ \E ok \in BOOLEAN :
          /\ loc' = [loc EXCEPT !.t = IF ok THEN BmeSample(cur).t ELSE 0,
                                !.errT = ~ok]
          /\ Returned("bme280", ok, <<BmeSample(cur).t>>)
          /\ pollpc' = IF ok THEN "bme_P" ELSE "bme_if"
    /\ Sent
    /\ UNCHANGED <<mainVars, ticker, tickC, reg, hung, cur, tickLost>>

BmeTemperatureRet == Result("bme_T_io", "bme_P", "bme280", "t", "errT", BmeSample(cur).t)

BmePressure == Issue("bme_P", "bme_P_io", "bme.Pressure")

BmePressureRet == Result("bme_P_io", "bme_H", "bme280", "p", "errP", BmeSample(cur).p)

BmeHumidity == Issue("bme_H", "bme_H_io", "bme.Humidity")

BmeHumidityRet == Result("bme_H_io", "bme_if", "bme280", "h", "errH", BmeSample(cur).h)

\* mutant: the humidity error is not looked at
BmeFailedNoH == loc.errT \/ loc.errP

\* line 140
BmeFailed == loc.errT \/ loc.errP \/ loc.errH

\* mutant: a read error ends the goroutine
BmeIfFatal == Branch("bme_if", BmeFailed, "bme_set_t", "dead")

\* mutant: the error branch resets the temperature gauge
BmeIfReset ==
    /\ Alive
    /\ pollpc = "bme_if"
    /\ IF BmeFailed
       THEN /\ pollpc' = "sht_nil"
            /\ reg' = SetGauge(reg, TempKey("bme280"), 0)
            /\ loc' = NoLoc
            /\ cur' = 0
       ELSE /\ pollpc' = "bme_set_t"
            /\ UNCHANGED <<reg, loc, cur>>
    /\ Sent
    /\ UNCHANGED <<mainVars, ticker, tickC, hung, histVars, tickLost>>

BmeIf == Branch("bme_if", BmeFailed, "bme_set_t", "sht_nil")

\* line 143
BmeSetTemp == SetStep("bme_set_t", "bme_set_p", TempKey("bme280"), loc.t, FALSE)

\* line 144
BmeSetPress ==
    SetStep("bme_set_p", "bme_set_h", PressKey("bme280"), PaToHPa(loc.p), FALSE)

\* line 145
BmeSetHum == SetStep("bme_set_h", "bme_set_ah", HumKey("bme280"), loc.h, FALSE)

\* lines 148-149
BmeSetAbsHum ==
    SetStep("bme_set_ah", "sht_nil", AbsHumKey("bme280"),
            calcAbsoluteHumidity(loc.t, loc.h), TRUE)

\* --- SHT2x, lines 154-168 ---
ShtNil == Section("sht_nil", PollSht, "sht_T", "tsl_nil")

ShtTemperature == Issue("sht_T", "sht_T_io", "sht.Temperature")

ShtTemperatureRet == Result("sht_T_io", "sht_H", "sht2x", "t", "errT", ShtSample(cur).t)

ShtHumidity == Issue("sht_H", "sht_H_io", "sht.Humidity")

ShtHumidityRet == Result("sht_H_io", "sht_if", "sht2x", "h", "errH", ShtSample(cur).h)

\* mutant: the temperature error is not looked at
ShtFailedNoT == loc.errH

\* line 158
ShtFailed == loc.errT \/ loc.errH

\* mutant: the error branch returns from updateSensors
ShtIfReturn == Branch("sht_if", ShtFailed, "sht_set_t", "ret")

ShtIf == Branch("sht_if", ShtFailed, "sht_set_t", "tsl_nil")

\* mutant: the SHT2x temperature goes to the BME280 series
ShtSetTempBme ==
    SetStep("sht_set_t", "sht_set_h", TempKey("bme280"), loc.t, FALSE)

\* line 161
ShtSetTemp == SetStep("sht_set_t", "sht_set_h", TempKey("sht2x"), loc.t, FALSE)

\* line 162
ShtSetHum == SetStep("sht_set_h", "sht_set_ah", HumKey("sht2x"), loc.h, FALSE)

\* lines 165-166
ShtSetAbsHum ==
    SetStep("sht_set_ah", "tsl_nil", AbsHumKey("sht2x"),
            calcAbsoluteHumidity(loc.t, loc.h), TRUE)

\* --- TSL2561, lines 171-183 ---
TslNil == Section("tsl_nil", PollTsl, "tsl_L", "ret")

TslGetLuminocity == Issue("tsl_L", "tsl_L_io", "tsl.GetLuminocity")

\* line 172: both channels come back from the one call
TslGetLuminocityRet ==
    /\ Alive
    /\ pollpc = "tsl_L_io"
    /\ ~hung
    /\ \E ok \in BOOLEAN :
          /\ loc' = [loc EXCEPT !.bb = IF ok THEN TslSample(cur).bb ELSE 0,
                                !.ir = IF ok THEN TslSample(cur).ir ELSE 0,
                                !.err = ~ok]
          /\ Returned("tsl2561", ok, <<TslSample(cur).bb, TslSample(cur).ir>>)
    /\ pollpc' = "tsl_if"
    /\ Sent
    /\ UNCHANGED <<mainVars, ticker, tickC, reg, hung, cur, tickLost>>

\* line 173
TslFailed == loc.err

TslIf == Branch("tsl_if", TslFailed, "tsl_set_lux", "ret")

\* mutant: the channels are passed in the wrong order
TslSetLuxSwapped ==
    SetStep("tsl_set_lux", "tsl_set_bb", LuxKey("tsl2561"),
            Float64OfInt(CalculateLux(loc.ir, loc.bb)), FALSE)

\* lines 177 and 179
TslSetLux ==
    SetStep("tsl_set_lux", "tsl_set_bb", LuxKey("tsl2561"),
            Float64OfInt(CalculateLux(loc.bb, loc.ir)), FALSE)

\* line 180
TslSetBroadband ==
    SetStep("tsl_set_bb", "tsl_set_ir", RawKey("tsl2561", "broadband"),
            Float64OfInt(loc.bb), FALSE)

\* line 181
TslSetInfrared ==
    SetStep("tsl_set_ir", "ret", RawKey("tsl2561", "infrared"),
            Float64OfInt(loc.ir), TRUE)

\* the bus stops answering: the driver call in flight never returns
Hang ==
    /\ Alive
    /\ InRead
    /\ ~hung
    /\ hung' = TRUE
    /\ Sent
    /\ UNCHANGED <<mainVars, pollpc, ticker, tickC, reg, loc, cur, histVars,
                   tickLost>>

Poller ==
    \/ CallFirst \/ Return \/ NewTicker \/ RecvTick
    \/ BmeNil \/ BmeTemperature \/ BmeTemperatureRet \/ BmePressure
    \/ BmePressureRet \/ BmeHumidity \/ BmeHumidityRet \/ BmeIf
    \/ BmeSetTemp \/ BmeSetPress \/ BmeSetHum \/ BmeSetAbsHum
    \/ ShtNil \/ ShtTemperature \/ ShtTemperatureRet \/ ShtHumidity
    \/ ShtHumidityRet \/ ShtIf \/ ShtSetTemp \/ ShtSetHum \/ ShtSetAbsHum
    \/ TslNil \/ TslGetLuminocity \/ TslGetLuminocityRet \/ TslIf
    \/ TslSetLux \/ TslSetBroadband \/ TslSetInfrared

Main == Connect \/ StartBme \/ StartSht \/ StartTsl \/ GoPoller \/ Listen

Next == Main \/ Poller \/ Tick \/ Hang \/ Scrape

Spec == Init /\ [][Next]_vars

\* The scheduler runs a runnable goroutine and the runtime's timer fires;
\* nothing makes a driver call return or a request arrive.
LiveSpec == Spec /\ WF_vars(Main) /\ WF_vars(Poller) /\ WF_vars(Tick)

(***************************************************************************)
(* calcAbsoluteHumidity on its own: the goroutine stands before one of the *)
(* two calls (lines 148 and 165) with the temperature and the humidity     *)
(* just read drawn from CalcT and CalcRH, and makes the call.              *)
(***************************************************************************)
\* temperatures in 0.01 degree, relative humidities in 0.01 percent
CalcT == {-2000, -1000, 0, 500, 1000, 1500, 2000, 2100, 2200, 2500, 3000,
          3500, 4000}

CalcRH == {0, 2500, 4000, 4500, 5000, 7500, 10000}

\* the devices with an absolute-humidity series
CalcDevices == {"bme280", "sht2x"}

CalcInit ==
    \E d \in CalcDevices, t \in CalcT, rh \in CalcRH :
        LET p == BmeSample(1).p IN
        /\ mainpc = "serving"
        /\ bme = (d = "bme280") /\ sht = (d = "sht2x") /\ tsl = FALSE
        /\ pollpc = IF d = "bme280" THEN "bme_set_ah" ELSE "sht_set_ah"
        /\ ticker = FALSE
        /\ tickC = 0
        /\ reg = IF d = "bme280"
                 THEN SetGauge(SetGauge(SetGauge(NoReg, TempKey(d), t),
                                        PressKey(d), PaToHPa(p)),
                               HumKey(d), rh)
                 ELSE SetGauge(SetGauge(NoReg, TempKey(d), t), HumKey(d), rh)
        /\ loc = IF d = "bme280"
                 THEN [NoLoc EXCEPT !.t = t, !.p = p, !.h = rh]
                 ELSE [NoLoc EXCEPT !.t = t, !.h = rh]
        /\ hung = FALSE
        /\ snap = NoReg
        /\ cur = 1
        /\ rd = [r \in AllReads |-> IF r \in Reads(d) THEN 1 ELSE 0]
        /\ wr = [k \in AnySeries |->
                    IF k \in Owned(d) \ {AbsHumKey(d)} THEN 1 ELSE 0]
        /\ bad = [x \in Devices |-> FALSE]
        /\ got = [x \in Devices |->
                     IF x # d THEN <<>>
                     ELSE IF d = "bme280" THEN <<t, p, rh>> ELSE <<t, rh>>]
        /\ reg0 = NoReg
        /\ everOk = [x \in Devices |-> x = d]
        /\ cycle = 1
        /\ ticksRecv = 0
        /\ tickLost = FALSE

CalcNext == BmeSetAbsHum \/ ShtSetAbsHum

CalcSpec == CalcInit /\ [][CalcNext]_vars

(***************************************************************************)
(* Properties.                                                             *)
(***************************************************************************)
Present(d) ==
    CASE d = "bme280" -> bme
      [] d = "sht2x" -> sht
      [] d = "tsl2561" -> tsl

\* main is past the three Start calls
StartupDone == mainpc \in {"go", "listen", "serving", "fatal"}

\* an updateSensors call is running
InCycle == pollpc \notin {"none", "first", "newticker", "wait"}

\* the last updateSensors call has reached its end (its history is kept
\* until the next call begins)
CycleDone == cycle >= 1 /\ pollpc \in {"ret", "newticker", "wait"}

Series(d) == {k \in AnySeries : DeviceOf(k) = d}

IssuedAll(d) == \A r \in Reads(d) : rd[r] = 1

WrittenAll(d) == \A k \in Owned(d) : wr[k] = 1

WrittenNone(d) == \A k \in Owned(d) : wr[k] = 0

\* C1: when a cycle has finished, every present source either had all its
\* reads succeed and every one of its series set in that cycle, or had a
\* read fail and none of its series set; never only some of them.
C1_AllOrNone ==
    CycleDone =>
        \A d \in Devices :
            Present(d) =>
                \/ IssuedAll(d) /\ ~bad[d] /\ WrittenAll(d)
                \/ bad[d] /\ WrittenNone(d)

C1_Witness ==
    /\ CycleDone
    /\ bme /\ sht
    /\ bad["bme280"] /\ WrittenNone("bme280")
    /\ ~bad["sht2x"] /\ WrittenAll("sht2x")

\* C2: in a finished cycle, for two distinct present sources A and B, if no
\* read of B failed then B's reads were all issued and B's series all set,
\* whatever happened to A, be A polled before or after B.
C2_Isolation ==
    CycleDone =>
        \A a, b \in Devices :
            (a # b /\ Present(a) /\ Present(b) /\ ~bad[b]) =>
                IssuedAll(b) /\ WrittenAll(b)

C2_Witness ==
    /\ CycleDone
    /\ bme /\ sht /\ tsl
    /\ bad["sht2x"]
    /\ ~bad["bme280"] /\ WrittenAll("bme280")
    /\ ~bad["tsl2561"] /\ WrittenAll("tsl2561")

\* C3: a source whose Start failed stays absent: once startup is over the
\* three driver pointers never change and main never goes back to a Start
\* call, no read is ever issued on the absent source and no series with
\* its device label is ever set or exists.
C3_AbsentForever ==
    /\ [](StartupDone =>
            \A d \in Devices :
                ~Present(d) =>
                    /\ \A r \in Reads(d) : rd[r] = 0
                    /\ \A k \in Series(d) : k \notin DOMAIN reg /\ wr[k] = 0)
    /\ [][StartupDone =>
            StartupDone' /\ bme' = bme /\ sht' = sht /\ tsl' = tsl]_vars

C3_Witness ==
    /\ ~bme /\ sht
    /\ cycle = MaxCycle
    /\ CycleDone
    /\ WrittenAll("sht2x")

\* C4: the goroutine's first step starts the first cycle: that cycle runs
\* with no ticker created and no tick sent or received, and it was not
\* started by a tick.
C4_FirstImmediate ==
    /\ pollpc \notin {"none", "first"} => cycle >= 1
    /\ (cycle <= 1 /\ pollpc \notin {"newticker", "wait"}) =>
            ~ticker /\ tickC = 0 /\ ticksRecv = 0
    /\ cycle = 1 => ticksRecv = 0

C4_Witness ==
    /\ cycle = 1
    /\ ~ticker
    /\ ticksRecv = 0
    /\ WrittenAll("bme280")
    /\ TempKey("bme280") \in DOMAIN reg

\* C5: if every driver call returns and the process is serving, cycles
\* start again and again whatever reads fail; and every finished cycle has
\* issued every read of every present source, also of one that has failed
\* in every cycle so far.
C5_NeverStops ==
    /\ [](CycleDone => \A d \in Devices : Present(d) => IssuedAll(d))
    /\ ([]~hung /\ <>(mainpc = "serving")) => []<>(pollpc = "bme_nil")

C5_Witness ==
    /\ mainpc = "serving"
    /\ CycleDone
    /\ cycle = MaxCycle
    /\ bme
    /\ ~everOk["bme280"]
    /\ bad["bme280"]
    /\ IssuedAll("bme280")

\* C6: at the end of a cycle every series of a source that had a read fail
\* is as it was when the cycle began (same value, or still missing); a
\* source that never had a successful cycle has no series; a series, once
\* there, is never removed.
C6_StaleRetained ==
    /\ [](pollpc = "ret" =>
            \A d \in Devices :
                bad[d] =>
                    \A k \in Series(d) :
                        /\ k \in DOMAIN reg <=> k \in DOMAIN reg0
                        /\ k \in DOMAIN reg => reg[k] = reg0[k])
    /\ [](\A d \in Devices :
            ~everOk[d] => \A k \in Series(d) : k \notin DOMAIN reg)
    /\ [][DOMAIN reg \subseteq DOMAIN reg']_vars

C6_Witness ==
    /\ pollpc = "ret"
    /\ bad["bme280"]
    /\ everOk["bme280"]
    /\ TempKey("bme280") \in DOMAIN reg
    /\ ~everOk["sht2x"]
    /\ bad["sht2x"]

\* C7: in a finished cycle, a temperature/humidity source whose reads all
\* succeeded has each of its series set exactly once, to the temperature,
\* the humidity, the pressure / 100 (bme280 only) and
\* calcAbsoluteHumidity(temperature, humidity) its own reads returned in
\* that cycle.
C7_TempHumValues ==
    CycleDone =>
        /\ (bme /\ ~bad["bme280"]) =>
              /\ Len(got["bme280"]) = 3
              /\ WrittenAll("bme280")
              /\ reg[TempKey("bme280")] = got["bme280"][1]
              /\ reg[PressKey("bme280")] = got["bme280"][2] \div 100
              /\ reg[HumKey("bme280")] = got["bme280"][3]
              /\ reg[AbsHumKey("bme280")] =
                    calcAbsoluteHumidity(got["bme280"][1], got["bme280"][3])
        /\ (sht /\ ~bad["sht2x"]) =>
              /\ Len(got["sht2x"]) = 2
              /\ WrittenAll("sht2x")
              /\ reg[TempKey("sht2x")] = got["sht2x"][1]
              /\ reg[HumKey("sht2x")] = got["sht2x"][2]
              /\ reg[AbsHumKey("sht2x")] =
                    calcAbsoluteHumidity(got["sht2x"][1], got["sht2x"][2])

C7_Witness ==
    /\ pollpc = "ret"
    /\ ~bad["bme280"] /\ ~bad["sht2x"]
    /\ TempKey("bme280") \in DOMAIN reg0
    /\ reg0[TempKey("bme280")] = 2200
    /\ got["bme280"] = <<2500, 10000000, 5000>>
    /\ reg[PressKey("bme280")] = 100000
    /\ got["sht2x"] = <<2100, 4000>>
    /\ reg[TempKey("sht2x")] = 2100

\* C8: in a finished cycle in which GetLuminocity succeeded, the call was
\* issued once and exactly the three light series were set, once each:
\* the two raw series to the broadband and infrared counts it returned and
\* the illuminance to CalculateLux of that pair.
C8_LightValues ==
    (CycleDone /\ tsl /\ ~bad["tsl2561"]) =>
        /\ rd["tsl.GetLuminocity"] = 1
        /\ Len(got["tsl2561"]) = 2
        /\ \A k \in Series("tsl2561") :
              wr[k] = IF k \in Owned("tsl2561") THEN 1 ELSE 0
        /\ reg[RawKey("tsl2561", "broadband")] = got["tsl2561"][1] * Scale
        /\ reg[RawKey("tsl2561", "infrared")] = got["tsl2561"][2] * Scale
        /\ reg[LuxKey("tsl2561")] =
              CalculateLux(got["tsl2561"][1], got["tsl2561"][2]) * Scale

C8_Witness ==
    /\ CycleDone
    /\ ~bad["tsl2561"]
    /\ got["tsl2561"] = <<100, 20>>
    /\ reg[LuxKey("tsl2561")] = 200
    /\ reg[RawKey("tsl2561", "broadband")] = 10000

\* the goroutine is inside a driver call of source d
Reading(d) ==
    CASE d = "bme280" -> pollpc \in {"bme_T_io", "bme_P_io", "bme_H_io"}
      [] d = "sht2x" -> pollpc \in {"sht_T_io", "sht_H_io"}
      [] d = "tsl2561" -> pollpc = "tsl_L_io"

\* C9 as claimed: a read in flight on one source never keeps another
\* present source from being read later, and never keeps the handler from
\* reading the gauges.
C9_Original ==
    /\ \A a, b \in Devices :
          [](a # b /\ mainpc = "serving" /\ Present(b) /\ Reading(a)
                => <>Reading(b))
    /\ [](mainpc = "serving" => ENABLED Scrape)

\* C9 as amended: a driver call that does not return stops the whole
\* goroutine: while it is in flight no other read is issued, no gauge is
\* set and no cycle starts, for any source; the handler can still read the
\* gauges.
C9_BlockedPoller ==
    /\ [][(InRead /\ (hung \/ pollpc' = pollpc)) =>
            UNCHANGED <<pollpc, reg, rd, wr, cycle, loc>>]_vars
    /\ [](mainpc = "serving" => ENABLED Scrape)

C9_Witness ==
    /\ mainpc = "serving"
    /\ hung
    /\ Reading("bme280")
    /\ sht
    /\ tickC = 1
    /\ snap # NoReg

\* C10: a gauge changes only in a step of the goroutine inside an
\* updateSensors call: never in a step of main or of the handler, and not
\* before the first cycle.
C10_SingleWriter ==
    /\ [][reg' # reg =>
            /\ InCycle
            /\ pollpc' # pollpc
            /\ mainpc' = mainpc
            /\ snap' = NoReg]_vars
    /\ [](pollpc \in {"none", "first"} => reg = NoReg)

C10_Witness ==
    /\ mainpc = "serving"
    /\ pollpc = "bme_set_p"
    /\ wr[TempKey("bme280")] = 1
    /\ snap # NoReg
    /\ snap = reg

\* the number of updateSensors calls that follows from the ticks received
CyclesFor(n) == IF n + 1 < MaxCycle THEN n + 1 ELSE MaxCycle

\* C11 as claimed: after the first cycle there is one cycle per tick
\* received, and no tick that fires is lost: each one leads to a cycle.
C11_Original ==
    /\ pollpc \notin {"none", "first"} => cycle = CyclesFor(ticksRecv)
    /\ ~tickLost

\* C11 as amended: the first cycle starts without a tick and every later
\* cycle starts by taking one tick off ticker.C, from the wait and never
\* while a cycle runs; a tick is taken off only by starting a cycle; the
\* timer keeps firing while a cycle runs; ticker.C holds at most one tick,
\* and a tick is dropped only when it fires while one is already waiting.
C11_TickPerCycle ==
    /\ [](pollpc \notin {"none", "first"} => cycle = CyclesFor(ticksRecv))
    /\ [](pollpc \in {"none", "first"} => cycle = 0 /\ ticksRecv = 0)
    /\ [](tickC \in {0, 1})
    /\ []((ticker /\ Alive) => ENABLED Tick)
    /\ [][(pollpc' = "bme_nil" /\ pollpc # "bme_nil") =>
            IF cycle = 0
            THEN pollpc = "first" /\ tickC' = tickC
            ELSE pollpc = "wait" /\ tickC = 1 /\ tickC' = 0]_vars
    /\ [][tickC' < tickC => (pollpc = "wait" /\ pollpc' = "bme_nil")]_vars
    /\ [][(tickLost' /\ ~tickLost) => (tickC = 1 /\ tickC' = 1)]_vars

\* a cycle started by a tick is still running after two more ticks fired:
\* one waits in ticker.C, the other was dropped
C11_Witness ==
    /\ InCycle
    /\ ~hung
    /\ ticksRecv >= 1
    /\ tickC = 1
    /\ tickLost

\* Bolton's formula at 100 percent relative humidity, in 0.001 g/m3:
\* 6.112 * exp(17.67*T / (T+243.5)) * 100 * 2.1674 / (273.15+T) evaluated
\* in double precision and rounded, for T in CalcT
BoltonAt100(t) ==
    CASE t = -2000 -> 1077
      [] t = -1000 -> 2362
      [] t = 0     -> 4850
      [] t = 500   -> 6796
      [] t = 1000  -> 9393
      [] t = 1500  -> 12817
      [] t = 2000  -> 17278
      [] t = 2100  -> 18316
      [] t = 2200  -> 19407
      [] t = 2500  -> 23026
      [] t = 3000  -> 30354
      [] t = 3500  -> 39607
      [] t = 4000  -> 51182

\* Bolton's formula in 0.01 g/m3 (it is linear in the relative humidity)
BoltonRef(t, rh) == RDiv(BoltonAt100(t) * rh, 100000)

\* the arguments and the result of the call made for device d
CalcT_of(d) == got[d][1]

CalcRH_of(d) == got[d][Len(got[d])]

\* C12: for every temperature and relative humidity the call returns a
\* number (there is no error outcome), and that number is within 0.01 g/m3
\* of Bolton's formula; 25 degrees and 50 percent give 11.51 within 0.01;
\* the call changes nothing but the gauge its result is stored in, and the
\* same arguments give the same result at both call sites.
C12_Bolton ==
    /\ [](\A d \in CalcDevices :
            wr[AbsHumKey(d)] = 1 =>
                /\ reg[AbsHumKey(d)] - BoltonRef(CalcT_of(d), CalcRH_of(d))
                       \in -1 .. 1
                /\ (CalcT_of(d) = 2500 /\ CalcRH_of(d) = 5000)
                       => reg[AbsHumKey(d)] \in 1150 .. 1152
                /\ reg[AbsHumKey(d)] =
                       calcAbsoluteHumidity(reg[TempKey(d)], reg[HumKey(d)]))
    /\ [](pollpc = "bme_set_ah" => ENABLED BmeSetAbsHum)
    /\ [](pollpc = "sht_set_ah" => ENABLED ShtSetAbsHum)
    /\ [][/\ \A k \in DOMAIN reg : k \in DOMAIN reg' /\ reg'[k] = reg[k]
          /\ DOMAIN reg' \ DOMAIN reg \subseteq
                 {AbsHumKey(d) : d \in CalcDevices}
          /\ UNCHANGED <<mainVars, got, rd, bad, hung>>]_vars

C12_Witness ==
    /\ wr[AbsHumKey("bme280")] = 1
    /\ got["bme280"][1] = 2500
    /\ got["bme280"][3] = 5000
    /\ reg[AbsHumKey("bme280")] = 1151

\* the steps of updateSensors in program order
PcOrder ==
    <<"bme_nil", "bme_T", "bme_T_io", "bme_P", "bme_P_io", "bme_H", "bme_H_io",
      "bme_if", "bme_set_t", "bme_set_p", "bme_set_h", "bme_set_ah",
      "sht_nil", "sht_T", "sht_T_io", "sht_H", "sht_H_io",
      "sht_if", "sht_set_t", "sht_set_h", "sht_set_ah",
      "tsl_nil", "tsl_L", "tsl_L_io",
      "tsl_if", "tsl_set_lux", "tsl_set_bb", "tsl_set_ir",
      "ret">>

Pos(pc) == CHOOSE i \in 1 .. Len(PcOrder) : PcOrder[i] = pc

\* the nil check that opens the section of d and the test that follows
\* its reads
NilPc(d) ==
    CASE d = "bme280" -> "bme_nil"
      [] d = "sht2x" -> "sht_nil"
      [] d = "tsl2561" -> "tsl_nil"

IfPc(d) ==
    CASE d = "bme280" -> "bme_if"
      [] d = "sht2x" -> "sht_if"
      [] d = "tsl2561" -> "tsl_if"

\* C13: no read is issued twice in a cycle, whatever failed; once the
\* goroutine is at the test after the reads of a present source, or beyond
\* it, every read of that source has been issued once, also when an
\* earlier one of them returned an error; up to a source's nil check none
\* of its reads has been issued, and the reads of an absent source never.
C13_EachReadOnce ==
    /\ \A r \in AllReads : rd[r] <= 1
    /\ \A d \in Devices :
          /\ (InCycle /\ Pos(pollpc) >= Pos(IfPc(d))) =>
                \A r \in Reads(d) : rd[r] = IF Present(d) THEN 1 ELSE 0
          /\ (InCycle /\ Pos(pollpc) <= Pos(NilPc(d))) =>
                \A r \in Reads(d) : rd[r] = 0
          /\ (StartupDone /\ ~Present(d)) => \A r \in Reads(d) : rd[r] = 0
    /\ CycleDone =>
          \A d \in Devices :
              \A r \in Reads(d) : rd[r] = IF Present(d) THEN 1 ELSE 0

\* in a later cycle Temperature() of the BME280 failed, and Pressure() and
\* Humidity() were still called, the last one with success
C13_Witness ==
    /\ pollpc = "bme_if"
    /\ cycle = 2
    /\ loc.errT /\ ~loc.errH
    /\ rd["bme.Temperature"] = 1
    /\ rd["bme.Pressure"] = 1
    /\ rd["bme.Humidity"] = 1

\* the source in whose section of updateSensors the step at pc lies
Sec(pc) ==
    IF pc \notin {PcOrder[i] : i \in 1 .. Len(PcOrder) - 1} THEN "none"
    ELSE IF Pos(pc) < Pos("sht_nil") THEN "bme280"
    ELSE IF Pos(pc) < Pos("tsl_nil") THEN "sht2x"
    ELSE "tsl2561"

\* source d has been read or written in the running cycle
Touched(d) ==
    \/ \E r \in Reads(d) : rd[r] > 0
    \/ \E k \in Series(d) : wr[k] > 0

\* C14: a cycle begins (and a tick is taken) only when no updateSensors
\* call is running, so two cycles never overlap; the ticker does not exist
\* before the first cycle has returned; inside a call the goroutine only
\* moves forward through the sections bme280, sht2x, tsl2561, a read is
\* issued and a gauge is set only for the source whose section it is in,
\* and a source touched in this cycle is the current one or an earlier one.
C14_Serial ==
    /\ [][(\/ (pollpc' = "bme_nil" /\ pollpc # "bme_nil")
           \/ cycle' # cycle
           \/ ticksRecv' # ticksRecv
           \/ tickC' < tickC) => (~InCycle /\ InCycle')]_vars
    /\ []((ticker \/ tickC > 0) => (cycle >= 1 /\ pollpc # "newticker"))
    /\ []((ticksRecv = 0 /\ InCycle) => (~ticker /\ tickC = 0))
    /\ [][(InCycle /\ InCycle' /\ pollpc' # pollpc) =>
            /\ Pos(pollpc') > Pos(pollpc)
            /\ \A r \in AllReads :
                  rd'[r] # rd[r] =>
                      (pollpc' \in {"bme_T_io", "bme_P_io", "bme_H_io",
                                    "sht_T_io", "sht_H_io", "tsl_L_io"}
                       /\ \E d \in Devices :
                             r \in Reads(d) /\ Sec(pollpc) = d)
            /\ \A k \in AnySeries :
                  wr'[k] # wr[k] => DeviceOf(k) = Sec(pollpc)]_vars
    /\ [](InCycle =>
            \A d \in Devices :
                Touched(d) => (Sec(pollpc) = "none"
                               \/ Pos(NilPc(d)) <= Pos(NilPc(Sec(pollpc)))))

\* the second cycle is in the SHT2x section, between its two reads, with
\* the BME280 gauges set and a tick waiting that has not started a cycle
C14_Witness ==
    /\ ticksRecv = 1
    /\ pollpc = "sht_H"
    /\ tickC = 1
    /\ WrittenAll("bme280")
    /\ rd["sht.Temperature"] = 1
    /\ rd["sht.Humidity"] = 0
    /\ ~Touched("tsl2561")

\* the gauges of source d after a cycle in which it returned sample i
SeriesOf(d, i) ==
    CASE d = "bme280" ->
           [k \in Owned(d) |->
               CASE k = TempKey(d) -> BmeSample(i).t
                 [] k = PressKey(d) -> PaToHPa(BmeSample(i).p)
                 [] k = HumKey(d) -> BmeSample(i).h
                 [] k = AbsHumKey(d) ->
                      calcAbsoluteHumidity(BmeSample(i).t, BmeSample(i).h)]
      [] d = "sht2x" ->
           [k \in Owned(d) |->
               CASE k = TempKey(d) -> ShtSample(i).t
                 [] k = HumKey(d) -> ShtSample(i).h
                 [] k = AbsHumKey(d) ->
                      calcAbsoluteHumidity(ShtSample(i).t, ShtSample(i).h)]
      [] d = "tsl2561" ->
           [k \in Owned(d) |->
               CASE k = LuxKey(d) ->
                      Float64OfInt(CalculateLux(TslSample(i).bb, TslSample(i).ir))
                 [] k = RawKey(d, "broadband") -> Float64OfInt(TslSample(i).bb)
                 [] k = RawKey(d, "infrared") -> Float64OfInt(TslSample(i).ir)]

\* in r the series of d that exist all hold the values of one cycle
SameCycle(r, d) ==
    \E i \in SampleIds :
        \A k \in Owned(d) \cap DOMAIN r : r[k] = SeriesOf(d, i)[k]

\* in r the series of d exist all or not at all
AllOrNone(r, d) ==
    \/ Owned(d) \cap DOMAIN r = {}
    \/ Owned(d) \subseteq DOMAIN r

\* in r the absolute humidity of d is that of its temperature and humidity
AbsHumFits(r, d) ==
    {TempKey(d), HumKey(d), AbsHumKey(d)} \subseteq DOMAIN r =>
        r[AbsHumKey(d)] = calcAbsoluteHumidity(r[TempKey(d)], r[HumKey(d)])

\* the goroutine is between two Set calls of the section of d
MidSets(d) ==
    CASE d = "bme280" -> pollpc \in {"bme_set_p", "bme_set_h", "bme_set_ah"}
      [] d = "sht2x" -> pollpc \in {"sht_set_h", "sht_set_ah"}
      [] d = "tsl2561" -> pollpc \in {"tsl_set_bb", "tsl_set_ir"}

\* C15 as claimed: whenever the handler reads the gauges, for every source
\* the series that exist hold the values of one and the same cycle, and
\* the absolute humidity is that of the temperature and humidity shown.
C15_Original ==
    \A d \in Devices :
        /\ SameCycle(snap, d)
        /\ d \in CalcDevices => AbsHumFits(snap, d)

\* C15 as amended: what the handler reads is the gauges as they are at
\* that moment; for every source whose section is not between two Set
\* calls at that moment the series exist all or not at all, hold the
\* values of one cycle, and the absolute humidity fits the temperature and
\* humidity; only the source between two of its Set calls can show some
\* series of the running cycle next to others of an earlier cycle.
C15_WholeOutsideSets ==
    /\ snap \in {NoReg, reg}
    /\ \A d \in Devices :
          ~MidSets(d) =>
              /\ AllOrNone(reg, d)
              /\ SameCycle(reg, d)
              /\ d \in CalcDevices => AbsHumFits(reg, d)
    /\ \A d \in Devices : ~MidSets(d) => SameCycle(snap, d)

\* a request is answered while the second cycle waits for the SHT2x: the
\* BME280 series shown are all of this cycle and differ from the first
C15_Witness ==
    /\ snap # NoReg
    /\ pollpc = "sht_T_io"
    /\ cycle = 2
    /\ WrittenAll("bme280")
    /\ TempKey("bme280") \in DOMAIN reg0
    /\ TempKey("bme280") \in DOMAIN snap
    /\ reg0[TempKey("bme280")] # snap[TempKey("bme280")]
    /\ AllOrNone(snap, "bme280")
    /\ SameCycle(snap, "bme280")

\* the series the claim gives to each source
Claimed(d) ==
    CASE d = "bme280" ->
           {<<"sensor_temperature_celsius", "bme280", "indoor">>,
            <<"sensor_pressure_hpa", "bme280", "indoor">>,
            <<"sensor_humidity_percent", "bme280", "indoor">>,
            <<"sensor_absolute_humidity_g_m3", "bme280", "indoor">>}
      [] d = "sht2x" ->
           {<<"sensor_temperature_celsius", "sht2x", "indoor">>,
            <<"sensor_humidity_percent", "sht2x", "indoor">>,
            <<"sensor_absolute_humidity_g_m3", "sht2x", "indoor">>}
      [] d = "tsl2561" ->
           {<<"sensor_illuminance_lux", "tsl2561", "indoor">>,
            <<"sensor_light_raw", "tsl2561", "indoor", "broadband">>,
            <<"sensor_light_raw", "tsl2561", "indoor", "infrared">>}

\* series k is set in this step: created, changed, or set to the value it had
SetNow(k) ==
    \/ k \in DOMAIN reg' \ DOMAIN reg
    \/ k \in DOMAIN reg \ DOMAIN reg'
    \/ (k \in DOMAIN reg \cap DOMAIN reg' /\ reg'[k] # reg[k])
    \/ (k \in AnySeries /\ wr'[k] > wr[k])

\* C16: a series is set only by a step in the section of the source named
\* in its device label, and only if it is one of the series the claim
\* gives that source, so polling a source, with or without success,
\* leaves the series of the others as they were; every series in the
\* registry has location indoor; no pressure series of the SHT2x exists;
\* a source whose reads succeeded has set exactly its claimed series.
C16_OwnSeriesOnly ==
    /\ [][\A k \in DOMAIN reg \cup DOMAIN reg' \cup AnySeries :
            SetNow(k) =>
                /\ InCycle
                /\ Sec(pollpc) \in Devices
                /\ DeviceOf(k) = Sec(pollpc)
                /\ k \in Claimed(Sec(pollpc))]_vars
    /\ [](\A k \in DOMAIN reg :
            /\ k[3] = "indoor"
            /\ k \in UNION {Claimed(d) : d \in Devices})
    /\ [](<<"sensor_pressure_hpa", "sht2x", "indoor">> \notin DOMAIN reg)
    /\ [](\A d \in Devices :
            (CycleDone /\ Present(d) /\ ~bad[d]) =>
                {k \in AnySeries : DeviceOf(k) = d /\ wr[k] > 0} = Claimed(d))

\* in the second cycle the BME280 failed and the SHT2x set its three
\* series to new values: the BME280 series are as the first cycle left them
C16_Witness ==
    /\ pollpc = "tsl_nil"
    /\ cycle = 2
    /\ bad["bme280"]
    /\ WrittenAll("sht2x")
    /\ Owned("bme280") \cup Owned("sht2x") \subseteq DOMAIN reg0
    /\ \A k \in Owned("bme280") : reg[k] = reg0[k]
    /\ \A k \in Owned("sht2x") : reg[k] # reg0[k]

\* no driver has been started or read and no gauge has been set
Untouched ==
    /\ pollpc = "none"
    /\ bme /\ sht /\ tsl
    /\ cycle = 0
    /\ reg = NoReg
    /\ \A r \in AllReads : rd[r] = 0
    /\ \A k \in AnySeries : wr[k] = 0

\* C17: when log.Fatal has ended the process, no updateSensors call is
\* in progress: either nothing had been started, read or set (r.Connect
\* failed), or the goroutine is outside a call (ListenAndServe failed), so
\* that every call that started has returned.
C17_FatalOutsideCycle ==
    mainpc = "fatal" => (Untouched \/ ~InCycle)

====
